---- MODULE Spec2Model ----
(***************************************************************************)
(* A model of the Lazy Links plugin (src/main.ts): the link index and its  *)
(* rebuild, the self-name set, the match resolver, the tokenizer with its  *)
(* bracket guard, the three scanning surfaces plus the context menu, and   *)
(* the materializer.                                                       *)
(*                                                                         *)
(* A JavaScript string is a sequence of one-character strings, so that     *)
(* toLowerCase, substring, length and concatenation are computed and not   *)
(* assumed.  A Map is a function whose domain is its key set.              *)
(***************************************************************************)
EXTENDS Integers, Sequences, FiniteSets, TLC

VARIABLES
    vault,          \* app.vault.getMarkdownFiles(): the files, in iteration order
    metadataCache,  \* app.metadataCache: path -> CachedMetadata, or the null cache
    settings,       \* LazyLinksPlugin.settings
    linkIndex,      \* LazyLinksPlugin.linkIndex
    view,           \* LazyLinksPlugin.view: is the side panel instantiated
    pending,        \* callbacks scheduled and not yet run (awaits, debounces, layout ready)
    activeFile,     \* the file of the open markdown view, NullFile when there is none
    editorDoc,            \* the text of that view's editor
    op,             \* the handler that ran last
    out             \* what that handler produced (decorations, spans, menu item, ...)

vars == <<vault, metadataCache, settings, linkIndex, view, pending, activeFile, editorDoc, op, out>>

---------------------------------------------------------------------------
(* Bounds of the model. *)

\* the vault holds at most this many of the files of AllFiles
MaxFiles == 2
\* the longest word typed into the editor
MaxWordLen == 3
\* the longest document a conversion may leave in the editor
MaxDocLen == 20

---------------------------------------------------------------------------
(* Strings. *)

UpperChars == {"A", "B"}
LowerChars == {"a", "b"}
\* \w of the regular expressions: letters (digits and "_" are not drawn)
WordChars == UpperChars \cup LowerChars
\* characters that end a word: the reference markers, the separators, a blank
OtherChars == {"[", "]", "|", "#", " "}

toLowerCaseChar(c) ==
    CASE c = "A" -> "a"
      [] c = "B" -> "b"
      [] OTHER -> c

\* String.prototype.toLowerCase
toLowerCase(s) == [i \in 1..Len(s) |-> toLowerCaseChar(s[i])]

Min(a, b) == IF a <= b THEN a ELSE b
Max(a, b) == IF a >= b THEN a ELSE b

\* String.prototype.substring(start, end), 0-based, end exclusive: both
\* arguments are clamped to [0, length] and swapped when start > end
substring(s, start, end) ==
    LET a == Max(0, Min(start, Len(s)))
        b == Max(0, Min(end, Len(s)))
    IN  SubSeq(s, Min(a, b) + 1, Max(a, b))

\* Map.prototype.set
MapSet(m, k, v) == [x \in (DOMAIN m) \cup {k} |-> IF x = k THEN v ELSE m[x]]

\* new Map()
EmptyMap == [x \in {} |-> x]

---------------------------------------------------------------------------
(* The documents: TFile values and what the metadata cache can hold for    *)
(* each.                                                                   *)

FileAb == [path |-> "x/Ab.md", basename |-> <<"A", "b">>]
Fileab == [path |-> "y/ab.md", basename |-> <<"a", "b">>]
FileB  == [path |-> "B.md",    basename |-> <<"B">>]

AllFiles == {FileAb, Fileab, FileB}
Paths == {f.path : f \in AllFiles}

\* one value of a frontmatter aliases entry: a string, or something else
StringValue(s) == [isString |-> TRUE, text |-> s]
NumberValue == [isString |-> FALSE, text |-> <<>>]

\* frontmatter.aliases: undefined, a scalar, or an array
NoAliases == [kind |-> "undefined", items |-> <<>>]
ScalarAlias(v) == [kind |-> "scalar", items |-> <<v>>]
ArrayAliases(vs) == [kind |-> "array", items |-> vs]

\* CachedMetadata.frontmatter
NoFrontmatter == [present |-> FALSE, ignore_linking |-> FALSE, aliases |-> NoAliases]
Frontmatter(ignore, aliases) ==
    [present |-> TRUE, ignore_linking |-> ignore, aliases |-> aliases]

\* CachedMetadata.headings
NoHeadings == [present |-> FALSE, list |-> <<>>]
Headings(hs) == [present |-> TRUE, list |-> hs]
Heading(text, level) == [heading |-> text, level |-> level]

\* getFileCache returns null
NullCache == [present |-> FALSE, frontmatter |-> NoFrontmatter, headings |-> NoHeadings]
Cache(fm, hs) == [present |-> TRUE, frontmatter |-> fm, headings |-> hs]

\* what each file's metadata can be once the host has parsed the file
Contents(path) ==
    CASE path = "x/Ab.md" ->
           { Cache(Frontmatter(FALSE, ArrayAliases(<<StringValue(<<"B">>), NumberValue>>)),
                   Headings(<<Heading(<<"A", "B">>, 1), Heading(<<"b">>, 4)>>)) }
      [] path = "y/ab.md" ->
           { Cache(Frontmatter(FALSE, ScalarAlias(StringValue(<<"b", "A">>))), NoHeadings) }
      [] path = "B.md" ->
           { Cache(Frontmatter(TRUE, ArrayAliases(<<StringValue(<<"A", "b">>)>>)),
                   Headings(<<Heading(<<"b", "a">>, 1)>>)),
             Cache(Frontmatter(FALSE, ArrayAliases(<<StringValue(<<"A", "b">>), StringValue(<<>>)>>)),
                   Headings(<<Heading(<<"b", "a">>, 1)>>)) }

\* app.metadataCache.getFileCache(file)
getFileCache(file) == metadataCache[file.path]

---------------------------------------------------------------------------
(* Settings. *)

HeaderLevels == 1..6

DEFAULT_SETTINGS ==
    [ matchStart |-> TRUE, matchEnd |-> TRUE, matchMiddle |-> FALSE,
      minMatchLength |-> 3,
      includeHeaders |-> FALSE,
      headerLevels |-> [l \in HeaderLevels |-> l <= 3],
      enableReadingMode |-> FALSE ]

\* what loadData() can return: nothing saved, or a saved minimum length
NoData == [k \in {} |-> k]
SavedData == {NoData, [minMatchLength |-> 2]}

\* loadSettings(): Object.assign({}, DEFAULT_SETTINGS, await this.loadData())
loadSettings(data) ==
    [k \in DOMAIN DEFAULT_SETTINGS |->
        IF k \in DOMAIN data THEN data[k] ELSE DEFAULT_SETTINGS[k]]

---------------------------------------------------------------------------
(* The index builder. *)

\* a LinkTarget; subpath is the empty string when the field is absent
\* (the code only ever tests it for truthiness)
LinkTarget(file, isAlias, actualName, subpath) ==
    [file |-> file, isAlias |-> isAlias, actualName |-> actualName, subpath |-> subpath]

\* cache.headings.forEach(...) of rebuildIndex, from the i-th heading on
RECURSIVE indexHeadings(_, _, _, _)
indexHeadings(newIndex, file, hs, i) ==
    IF i > Len(hs) THEN newIndex
    ELSE LET h == hs[i]
             isEnabled == settings.headerLevels[h.level]
         IN  IF isEnabled /\ Len(h.heading) >= settings.minMatchLength
             THEN indexHeadings(
                      MapSet(newIndex, toLowerCase(h.heading),
                             LinkTarget(file, FALSE, h.heading, <<"#">> \o h.heading)),
                      file, hs, i + 1)
             ELSE indexHeadings(newIndex, file, hs, i + 1)

\* arr.forEach(...) of rebuildIndex, from the i-th alias on
RECURSIVE indexAliases(_, _, _, _)
indexAliases(newIndex, file, arr, i) ==
    IF i > Len(arr) THEN newIndex
    ELSE IF arr[i].isString
         THEN indexAliases(
                  MapSet(newIndex, toLowerCase(arr[i].text),
                         LinkTarget(file, TRUE, arr[i].text, <<>>)),
                  file, arr, i + 1)
         ELSE indexAliases(newIndex, file, arr, i + 1)

\* is frontmatter.aliases truthy: undefined, "" and 0 are not, an array is
aliasesTruthy(fm) ==
    /\ fm.present
    /\ \/ fm.aliases.kind = "array"
       \/ /\ fm.aliases.kind = "scalar"
          /\ fm.aliases.items[1].isString => Len(fm.aliases.items[1].text) > 0

\* indexFile with the basename key inserted as written, not lowercased
indexFile_KeyNotLowercased(newIndex, file) ==
    LET cache == getFileCache(file)
    IN  IF cache.present /\ cache.frontmatter.present /\ cache.frontmatter.ignore_linking
        THEN newIndex
        ELSE LET withHeadings ==
                     IF settings.includeHeaders /\ cache.present /\ cache.headings.present
                     THEN indexHeadings(newIndex, file, cache.headings.list, 1)
                     ELSE newIndex
                 withAliases ==
                     IF cache.present /\ aliasesTruthy(cache.frontmatter)
                     THEN indexAliases(withHeadings, file, cache.frontmatter.aliases.items, 1)
                     ELSE withHeadings
             IN  MapSet(withAliases, file.basename,
                        LinkTarget(file, FALSE, file.basename, <<>>))

\* indexFile with the ignore_linking test made after the headings and the
\* aliases are inserted: an ignored file loses only its basename
indexFile_IgnoreTestedLate(newIndex, file) ==
    LET cache == getFileCache(file)
        withHeadings ==
            IF settings.includeHeaders /\ cache.present /\ cache.headings.present
            THEN indexHeadings(newIndex, file, cache.headings.list, 1)
            ELSE newIndex
        withAliases ==
            IF cache.present /\ aliasesTruthy(cache.frontmatter)
            THEN indexAliases(withHeadings, file, cache.frontmatter.aliases.items, 1)
            ELSE withHeadings
    IN  IF cache.present /\ cache.frontmatter.present /\ cache.frontmatter.ignore_linking
        THEN withAliases
        ELSE MapSet(withAliases, toLowerCase(file.basename),
                    LinkTarget(file, FALSE, file.basename, <<>>))

\* indexFile with a file that has no metadata skipped: if (!cache) return;
indexFile_NullCacheSkipped(newIndex, file) ==
    LET cache == getFileCache(file)
    IN  IF ~cache.present
           \/ (cache.frontmatter.present /\ cache.frontmatter.ignore_linking)
        THEN newIndex
        ELSE LET withHeadings ==
                     IF settings.includeHeaders /\ cache.headings.present
                     THEN indexHeadings(newIndex, file, cache.headings.list, 1)
                     ELSE newIndex
                 withAliases ==
                     IF aliasesTruthy(cache.frontmatter)
                     THEN indexAliases(withHeadings, file, cache.frontmatter.aliases.items, 1)
                     ELSE withHeadings
             IN  MapSet(withAliases, toLowerCase(file.basename),
                        LinkTarget(file, FALSE, file.basename, <<>>))

\* indexFile with the basename inserted first, ahead of headings and aliases
indexFile_BasenameFirst(newIndex, file) ==
    LET cache == getFileCache(file)
    IN  IF cache.present /\ cache.frontmatter.present /\ cache.frontmatter.ignore_linking
        THEN newIndex
        ELSE LET withBasename ==
                     MapSet(newIndex, toLowerCase(file.basename),
                            LinkTarget(file, FALSE, file.basename, <<>>))
                 withHeadings ==
                     IF settings.includeHeaders /\ cache.present /\ cache.headings.present
                     THEN indexHeadings(withBasename, file, cache.headings.list, 1)
                     ELSE withBasename
             IN  IF cache.present /\ aliasesTruthy(cache.frontmatter)
                 THEN indexAliases(withHeadings, file, cache.frontmatter.aliases.items, 1)
                 ELSE withHeadings

\* the body of files.forEach in rebuildIndex, for one file
indexFile(newIndex, file) ==
    LET cache == getFileCache(file)
    IN  IF cache.present /\ cache.frontmatter.present /\ cache.frontmatter.ignore_linking
        THEN newIndex
        ELSE LET withHeadings ==
                     IF settings.includeHeaders /\ cache.present /\ cache.headings.present
                     THEN indexHeadings(newIndex, file, cache.headings.list, 1)
                     ELSE newIndex
                 withAliases ==
                     IF cache.present /\ aliasesTruthy(cache.frontmatter)
                     THEN indexAliases(withHeadings, file, cache.frontmatter.aliases.items, 1)
                     ELSE withHeadings
             IN  MapSet(withAliases, toLowerCase(file.basename),
                        LinkTarget(file, FALSE, file.basename, <<>>))

\* files.forEach(...) of rebuildIndex, from the i-th file on
RECURSIVE indexFiles(_, _, _)
indexFiles(newIndex, files, i) ==
    IF i > Len(files) THEN newIndex
    ELSE indexFiles(indexFile(newIndex, files[i]), files, i + 1)

\* the map rebuildIndex assigns to this.linkIndex
newIndexOf(files) == indexFiles(EmptyMap, files, 1)

\* rebuildIndex() filling the live map instead of a new one
rebuildIndex_InPlace(stillPending) ==
    /\ linkIndex' = indexFiles(linkIndex, vault, 1)
    /\ pending' = IF view THEN stillPending \cup {"refresh"} ELSE stillPending

\* rebuildIndex(): the new map replaces linkIndex in one assignment, and the
\* side panel, when there is one, is asked to refresh (a debounced render)
rebuildIndex(stillPending) ==
    /\ linkIndex' = newIndexOf(vault)
    /\ pending' = IF view THEN stillPending \cup {"refresh"} ELSE stillPending

---------------------------------------------------------------------------
(* The self-name resolver. *)

\* getSelfNames(file)
getSelfNames(file) ==
    LET cache == getFileCache(file)
        arr == cache.frontmatter.aliases.items
        hs == cache.headings.list
    IN  {toLowerCase(file.basename)}
        \cup (IF cache.present /\ aliasesTruthy(cache.frontmatter)
              THEN {toLowerCase(arr[i].text) : i \in {j \in 1..Len(arr) : arr[j].isString}}
              ELSE {})
        \cup (IF cache.present /\ cache.headings.present
              THEN {toLowerCase(hs[i].heading) : i \in 1..Len(hs)}
              ELSE {})

---------------------------------------------------------------------------
(* The match resolver. *)

\* target: null
NullTarget == [null |-> TRUE]

MatchResult(target, isPartial, matchedString) ==
    [target |-> target, isPartial |-> isPartial, matchedString |-> matchedString]

NoMatch == MatchResult(NullTarget, FALSE, <<>>)

\* the two loops without "if (selfNames.has(sub)) continue"
RECURSIVE partialPhase_SelfNotSkipped(_, _, _, _)
partialPhase_SelfNotSkipped(lower, selfNames, len, i) ==
    IF len < settings.minMatchLength THEN NoMatch
    ELSE IF i > Len(lower) - len THEN partialPhase_SelfNotSkipped(lower, selfNames, len - 1, 0)
    ELSE LET sub == substring(lower, i, i + len)
             isStart == (i = 0)
             isEnd == (i + len = Len(lower))
             isMiddle == ~isStart /\ ~isEnd
             isValid == \/ isStart /\ settings.matchStart
                        \/ isEnd /\ settings.matchEnd
                        \/ isMiddle /\ settings.matchMiddle
         IN  IF sub \in DOMAIN linkIndex /\ isValid
             THEN MatchResult(linkIndex[sub], TRUE, sub)
             ELSE partialPhase_SelfNotSkipped(lower, selfNames, len, i + 1)

\* the two loops giving up at the first indexed candidate whose position is
\* switched off
RECURSIVE partialPhase_RejectionStops(_, _, _, _)
partialPhase_RejectionStops(lower, selfNames, len, i) ==
    IF len < settings.minMatchLength THEN NoMatch
    ELSE IF i > Len(lower) - len THEN partialPhase_RejectionStops(lower, selfNames, len - 1, 0)
    ELSE LET sub == substring(lower, i, i + len)
             isStart == (i = 0)
             isEnd == (i + len = Len(lower))
             isMiddle == ~isStart /\ ~isEnd
             isValid == \/ isStart /\ settings.matchStart
                        \/ isEnd /\ settings.matchEnd
                        \/ isMiddle /\ settings.matchMiddle
         IN  IF sub \in selfNames THEN partialPhase_RejectionStops(lower, selfNames, len, i + 1)
             ELSE IF sub \in DOMAIN linkIndex
                  THEN IF isValid THEN MatchResult(linkIndex[sub], TRUE, sub) ELSE NoMatch
                  ELSE partialPhase_RejectionStops(lower, selfNames, len, i + 1)

\* the two nested loops of findBestMatch, from candidate (len, i) on
RECURSIVE partialPhase(_, _, _, _)
partialPhase(lower, selfNames, len, i) ==
    IF len < settings.minMatchLength THEN NoMatch
    ELSE IF i > Len(lower) - len THEN partialPhase(lower, selfNames, len - 1, 0)
    ELSE LET sub == substring(lower, i, i + len)
             isStart == (i = 0)
             isEnd == (i + len = Len(lower))
             isMiddle == ~isStart /\ ~isEnd
             isValid == \/ isStart /\ settings.matchStart
                        \/ isEnd /\ settings.matchEnd
                        \/ isMiddle /\ settings.matchMiddle
         IN  IF sub \in selfNames THEN partialPhase(lower, selfNames, len, i + 1)
             ELSE IF sub \in DOMAIN linkIndex /\ isValid
                  THEN MatchResult(linkIndex[sub], TRUE, sub)
                  ELSE partialPhase(lower, selfNames, len, i + 1)

\* findBestMatch with the two early returns ahead of the exact lookup
findBestMatch_GatedExact(word, selfNames) ==
    LET lower == toLowerCase(word)
    IN  IF ~settings.matchStart /\ ~settings.matchEnd /\ ~settings.matchMiddle
        THEN NoMatch
        ELSE IF Len(word) < settings.minMatchLength
             THEN NoMatch
             ELSE IF lower \in DOMAIN linkIndex /\ lower \notin selfNames
                  THEN MatchResult(linkIndex[lower], FALSE, lower)
                  ELSE partialPhase(lower, selfNames, Len(lower) - 1, 0)

\* findBestMatch whose two early returns carry the lowercased word as
\* matchedString
findBestMatch_GateKeepsWord(word, selfNames) ==
    LET lower == toLowerCase(word)
    IN  IF lower \in DOMAIN linkIndex /\ lower \notin selfNames
        THEN MatchResult(linkIndex[lower], FALSE, lower)
        ELSE IF ~settings.matchStart /\ ~settings.matchEnd /\ ~settings.matchMiddle
             THEN MatchResult(NullTarget, FALSE, lower)
             ELSE IF Len(word) < settings.minMatchLength
                  THEN MatchResult(NullTarget, FALSE, lower)
                  ELSE partialPhase(lower, selfNames, Len(lower) - 1, 0)

\* findBestMatch(word, selfNames)
findBestMatch(word, selfNames) ==
    LET lower == toLowerCase(word)
    IN  IF lower \in DOMAIN linkIndex /\ lower \notin selfNames
        THEN MatchResult(linkIndex[lower], FALSE, lower)
        ELSE IF ~settings.matchStart /\ ~settings.matchEnd /\ ~settings.matchMiddle
             THEN NoMatch
             ELSE IF Len(word) < settings.minMatchLength
                  THEN NoMatch
                  ELSE partialPhase(lower, selfNames, Len(lower) - 1, 0)

---------------------------------------------------------------------------
(* The tokenizer: /\b\w+\b/g, and the bracket guard.                       *)

\* the last position (1-based) of the run of word characters that holds pos
RECURSIVE wordEnd(_, _)
wordEnd(text, pos) ==
    IF pos < Len(text) /\ text[pos + 1] \in WordChars THEN wordEnd(text, pos + 1) ELSE pos

\* every regex.exec(text) result from position pos (1-based) on:
\* match.index (0-based) and match[0], one per maximal run of word characters
RECURSIVE regexMatches(_, _)
regexMatches(text, pos) ==
    IF pos > Len(text) THEN <<>>
    ELSE IF text[pos] \notin WordChars THEN regexMatches(text, pos + 1)
    ELSE LET last == wordEnd(text, pos)
         IN  <<[index |-> pos - 1, word |-> SubSeq(text, pos, last)]>>
             \o regexMatches(text, last + 1)

\* String.prototype.includes
includes(s, pattern) ==
    \E i \in 0..Len(s) : substring(s, i, i + Len(pattern)) = pattern

\* if (prevChar.includes('[[') || nextChar.includes(']]')) continue;
\* start and end are the word's offsets in text
alreadyLinked(text, start, end) ==
    LET prevChar == substring(text, Max(0, start - 2), start)
        nextChar == substring(text, end, Min(Len(text), end + 2))
    IN  includes(prevChar, <<"[", "[">>) \/ includes(nextChar, <<"]", "]">>)

\* a null TFile
NullFile == [path |-> "", basename |-> <<>>]

\* file ? getSelfNames(file) : new Set()
selfNamesOf(file) == IF file # NullFile THEN getSelfNames(file) ELSE {}

---------------------------------------------------------------------------
(* The editor extension: the decorations of the live editor.               *)

Decoration(from, to, class, target) ==
    [from |-> from, to |-> to, class |-> class,
     dataLinkTarget |-> target.file.basename]

\* the class buildDecorations gives a match, and the set of seen strings after it
styleOf(matchResult, seenInThisView) ==
    IF matchResult.isPartial THEN "cm-virtual-link-muted"
    ELSE IF matchResult.matchedString \in seenInThisView
         THEN "cm-virtual-link-muted"
         ELSE "cm-virtual-link"

seenAfter(matchResult, seenInThisView) ==
    IF matchResult.isPartial THEN seenInThisView
    ELSE seenInThisView \cup {matchResult.matchedString}

\* one word handed to findBestMatch, with what came back
Queried(from, to, word, matchResult) ==
    [from |-> from, to |-> to, word |-> word, result |-> matchResult]

\* the body of the while loop of buildDecorations once findBestMatch has
\* answered: acc holds seenInThisView, the builder's ranges and the words
\* handed to findBestMatch
decorated(acc, absoluteStart, absoluteEnd, word, matchResult) ==
    IF matchResult.target # NullTarget
    THEN [seen |-> seenAfter(matchResult, acc.seen),
          ranges |-> Append(acc.ranges,
                            Decoration(absoluteStart, absoluteEnd,
                                       styleOf(matchResult, acc.seen), matchResult.target)),
          queried |-> Append(acc.queried, Queried(absoluteStart, absoluteEnd, word, matchResult))]
    ELSE [acc EXCEPT !.queried =
              Append(acc.queried, Queried(absoluteStart, absoluteEnd, word, matchResult))]

\* the while loop of buildDecorations over the matches of one visible range,
\* from the k-th match on
RECURSIVE decorateRange(_, _, _, _, _, _)
decorateRange(doc, from, matches, k, selfNames, acc) ==
    IF k > Len(matches) THEN acc
    ELSE LET word == matches[k].word
             absoluteStart == from + matches[k].index
             absoluteEnd == absoluteStart + Len(word)
         IN  IF alreadyLinked(doc, absoluteStart, absoluteEnd)
             THEN decorateRange(doc, from, matches, k + 1, selfNames, acc)
             ELSE decorateRange(doc, from, matches, k + 1, selfNames,
                      decorated(acc, absoluteStart, absoluteEnd, word,
                                findBestMatch(word, selfNames)))

\* for (const { from, to } of view.visibleRanges), from the r-th range on
RECURSIVE decorateRanges(_, _, _, _, _)
decorateRanges(doc, visibleRanges, r, selfNames, acc) ==
    IF r > Len(visibleRanges) THEN acc
    ELSE LET from == visibleRanges[r].from
             to == visibleRanges[r].to
             text == substring(doc, from, to)
         IN  decorateRanges(doc, visibleRanges, r + 1, selfNames,
                 decorateRange(doc, from, regexMatches(text, 1), 1, selfNames, acc))

NoDecorations == [seen |-> {}, ranges |-> <<>>, queried |-> <<>>]

\* buildDecorations(view)
buildDecorations(currentFile, doc, visibleRanges) ==
    IF Cardinality(DOMAIN linkIndex) = 0 THEN NoDecorations
    ELSE decorateRanges(doc, visibleRanges, 1, selfNamesOf(currentFile), NoDecorations)

\* constructor(view): a markdown view opens on a file; its decorations are built
constructor(file, text) ==
    /\ activeFile' = file
    /\ editorDoc' = text
    /\ out' = [kind |-> "decorations", file |-> file, text |-> text,
               built |-> buildDecorations(file, text, <<[from |-> 0, to |-> Len(text)]>>)]
    /\ op' = "constructor"
    /\ UNCHANGED <<vault, metadataCache, settings, linkIndex, view, pending>>

\* update(update), when the document or the viewport changed: the decorations
\* are rebuilt and the side panel, if there is one, is asked to refresh
update(text, visibleRanges) ==
    /\ editorDoc' = text
    /\ out' = [kind |-> "decorations", file |-> activeFile, text |-> text,
               built |-> buildDecorations(activeFile, text, visibleRanges)]
    /\ pending' = IF view THEN pending \cup {"refresh"} ELSE pending
    /\ op' = "update"
    /\ UNCHANGED <<vault, metadataCache, settings, linkIndex, view, activeFile>>

---------------------------------------------------------------------------
(* Reading mode: the markdown post processor.                              *)

SkippedTags == {"A", "PRE", "CODE", "STYLE", "SCRIPT", "TEXTAREA"}

\* shouldSkipNode(node): node.ancestors are the elements from the node's
\* parent up to, and without, document.body
shouldSkipNode(node) ==
    \E i \in 1..Len(node.ancestors) :
        \/ node.ancestors[i].tagName \in SkippedTags
        \/ "cm-virtual-link" \in node.ancestors[i].classList

\* the body of the inner while loop of processHtml once findBestMatch has
\* answered
nodeMatched(acc, index, word, matchResult) ==
    IF matchResult.target # NullTarget
    THEN [matches |-> Append(acc.matches,
                             [start |-> index, end |-> index + Len(word),
                              result |-> matchResult, word |-> word]),
          queried |-> Append(acc.queried, Queried(index, index + Len(word), word, matchResult))]
    ELSE [acc EXCEPT !.queried =
              Append(acc.queried, Queried(index, index + Len(word), word, matchResult))]

\* the inner while loop of processHtml: the matches of one text node, from
\* the k-th regex match on, and the words handed to findBestMatch
RECURSIVE nodeMatches(_, _, _, _)
nodeMatches(found, k, selfNames, acc) ==
    IF k > Len(found) THEN acc
    ELSE nodeMatches(found, k + 1, selfNames,
             nodeMatched(acc, found[k].index, found[k].word,
                         findBestMatch(found[k].word, selfNames)))

TextPiece(text) ==
    [span |-> FALSE, className |-> "", dataLinkTarget |-> <<>>, text |-> text]

\* the class processHtml gives a match
spanClass(m) ==
    IF m.result.isPartial THEN "cm-virtual-link-muted" ELSE "cm-virtual-link"

SpanPiece(text, m) ==
    [span |-> TRUE, className |-> spanClass(m),
     dataLinkTarget |-> m.result.target.file.basename,
     text |-> substring(text, m.start, m.end)]

\* the fragment that replaces one text node: for (const m of matches) ...,
\* from the k-th match on
RECURSIVE fragmentOf(_, _, _, _)
fragmentOf(text, matches, k, lastIndex) ==
    IF k > Len(matches)
    THEN IF lastIndex < Len(text) THEN <<TextPiece(substring(text, lastIndex, Len(text)))>>
         ELSE <<>>
    ELSE LET m == matches[k]
             before == IF m.start > lastIndex
                       THEN <<TextPiece(substring(text, lastIndex, m.start))>>
                       ELSE <<>>
         IN  before \o <<SpanPiece(text, m)>> \o fragmentOf(text, matches, k + 1, m.end)

\* what one text node adds to the nodes to replace, given its matches
nodeProcessed(acc, n, text, got) ==
    LET queried == acc.queried
                   \o [k \in 1..Len(got.queried) |->
                          [node |-> n, from |-> got.queried[k].from,
                           to |-> got.queried[k].to, word |-> got.queried[k].word,
                           result |-> got.queried[k].result]]
    IN  IF Len(got.matches) > 0
        THEN [replaced |-> Append(acc.replaced,
                               [node |-> n, matches |-> got.matches,
                                fragment |-> fragmentOf(text, got.matches, 1, 0)]),
              queried |-> queried]
        ELSE [acc EXCEPT !.queried = queried]

\* processHtml(element, context): the walk over the element's text nodes,
\* from the n-th on, then the replacement of every node that has matches
RECURSIVE processNodes(_, _, _, _)
processNodes(nodes, n, selfNames, acc) ==
    IF n > Len(nodes) THEN acc
    ELSE IF shouldSkipNode(nodes[n]) THEN processNodes(nodes, n + 1, selfNames, acc)
    ELSE processNodes(nodes, n + 1, selfNames,
             nodeProcessed(acc, n, nodes[n].text,
                           nodeMatches(regexMatches(nodes[n].text, 1), 1, selfNames,
                                       [matches |-> <<>>, queried |-> <<>>])))

processHtml(element, sourceFile) ==
    processNodes(element, 1, selfNamesOf(sourceFile), [replaced |-> <<>>, queried |-> <<>>])

\* registerMarkdownPostProcessor((element, context) => ...): the reading view
\* renders an element of the active file
postProcess(element) ==
    /\ out' = [kind |-> "html", file |-> activeFile, element |-> element,
               built |-> IF settings.enableReadingMode
                         THEN processHtml(element, activeFile)
                         ELSE [replaced |-> <<>>, queried |-> <<>>]]
    /\ op' = "postProcess"
    /\ UNCHANGED <<vault, metadataCache, settings, linkIndex, view, pending, activeFile, editorDoc>>

---------------------------------------------------------------------------
(* The side panel: LazyLinksView.                                          *)

\* the body of the while loop of render() once findBestMatch has answered
panelMatched(acc, absoluteStart, absoluteEnd, word, result) ==
    IF result.target # NullTarget
    THEN [matches |-> Append(acc.matches,
                             [word |-> word, target |-> result.target, index |-> absoluteStart]),
          queried |-> Append(acc.queried, Queried(absoluteStart, absoluteEnd, word, result))]
    ELSE [acc EXCEPT !.queried =
              Append(acc.queried, Queried(absoluteStart, absoluteEnd, word, result))]

\* the while loop of render(), from the k-th regex match on
RECURSIVE panelMatches(_, _, _, _, _)
panelMatches(text, found, k, selfNames, acc) ==
    IF k > Len(found) THEN acc
    ELSE LET word == found[k].word
             absoluteStart == found[k].index
             absoluteEnd == absoluteStart + Len(word)
         IN  IF alreadyLinked(text, absoluteStart, absoluteEnd)
             THEN panelMatches(text, found, k + 1, selfNames, acc)
             ELSE panelMatches(text, found, k + 1, selfNames,
                      panelMatched(acc, absoluteStart, absoluteEnd, word,
                                   findBestMatch(word, selfNames)))

\* matches.forEach(m => ...): the matches grouped by target, from the k-th on;
\* a key is the target's path and subpath
RECURSIVE groupByTarget(_, _, _)
groupByTarget(grouped, matches, k) ==
    IF k > Len(matches) THEN grouped
    ELSE LET m == matches[k]
             key == <<m.target.file.path, m.target.subpath>>
             sofar == IF key \in DOMAIN grouped THEN grouped[key] ELSE <<>>
         IN  groupByTarget(MapSet(grouped, key, Append(sofar, m)), matches, k + 1)

\* the panel render() draws from the matches it gathered
rendered(file, text, got) ==
    [kind |-> "panel", file |-> file, text |-> text,
     built |-> got, grouped |-> groupByTarget(EmptyMap, got.matches, 1)]

\* render(): the matches of the active markdown view, if there is one
render ==
    IF activeFile = NullFile
    THEN rendered(NullFile, <<>>, [matches |-> <<>>, queried |-> <<>>])
    ELSE rendered(activeFile, editorDoc,
                  panelMatches(editorDoc, regexMatches(editorDoc, 1), 1,
                               getSelfNames(activeFile),
                               [matches |-> <<>>, queried |-> <<>>]))

\* the 'Open Side Panel' command: the view is created and onOpen() renders it
activateView ==
    /\ ~view
    /\ view' = TRUE
    /\ out' = render
    /\ op' = "render"
    /\ UNCHANGED <<vault, metadataCache, settings, linkIndex, pending, activeFile, editorDoc>>

\* refresh(): debounce(this.render.bind(this), 500, true) runs out
refresh ==
    /\ "refresh" \in pending
    /\ pending' = pending \ {"refresh"}
    /\ out' = render
    /\ op' = "render"
    /\ UNCHANGED <<vault, metadataCache, settings, linkIndex, view, activeFile, editorDoc>>

---------------------------------------------------------------------------
(* The context menu and the materializer.                                  *)

NoWord == [found |-> FALSE, word |-> <<>>, from |-> 0, to |-> 0]

\* getWordAtPosition(editor, position), over the matches of the line from
\* the k-th on: the first word the cursor is in or next to
RECURSIVE wordAt(_, _, _)
wordAt(found, k, ch) ==
    IF k > Len(found) THEN NoWord
    ELSE LET start == found[k].index
             end == start + Len(found[k].word)
         IN  IF ch >= start /\ ch <= end
             THEN [found |-> TRUE, word |-> found[k].word, from |-> start, to |-> end]
             ELSE wordAt(found, k + 1, ch)

getWordAtPosition(line, ch) == wordAt(regexMatches(line, 1), 1, ch)

NoItem == [present |-> FALSE, target |-> NullTarget]

\* what the "editor-menu" handler leaves: the word under the cursor, the
\* answer of findBestMatch, and the menu item if one was added
menuFor(file, line, wordInfo, matchResult) ==
    [kind |-> "menu", file |-> file, text |-> line, wordInfo |-> wordInfo,
     built |-> [queried |-> <<Queried(wordInfo.from, wordInfo.to, wordInfo.word, matchResult)>>],
     item |-> IF /\ matchResult.target # NullTarget
                 /\ ~(file # NullFile /\ matchResult.target.file.path = file.path)
              THEN [present |-> TRUE, target |-> matchResult.target]
              ELSE NoItem]

\* the "editor-menu" handler, the cursor at ch of the line
editorMenu(ch) ==
    /\ LET wordInfo == getWordAtPosition(editorDoc, ch)
       IN  out' = IF wordInfo.found
                  THEN menuFor(activeFile, editorDoc, wordInfo,
                               findBestMatch(wordInfo.word, selfNamesOf(activeFile)))
                  ELSE [kind |-> "menu", file |-> activeFile, text |-> editorDoc,
                        wordInfo |-> wordInfo, built |-> [queried |-> <<>>], item |-> NoItem]
    /\ op' = "editorMenu"
    /\ UNCHANGED <<vault, metadataCache, settings, linkIndex, view, pending, activeFile, editorDoc>>

\* the replacement text with the target's actualName as the link path
replacementText_ActualNamePath(word, target) ==
    LET linkPath == IF Len(target.subpath) > 0
                    THEN target.actualName \o target.subpath
                    ELSE target.actualName
    IN  IF word = target.actualName
        THEN IF Len(target.subpath) > 0
             THEN <<"[", "[">> \o linkPath \o <<"|">> \o word \o <<"]", "]">>
             ELSE <<"[", "[">> \o linkPath \o <<"]", "]">>
        ELSE <<"[", "[">> \o linkPath \o <<"|">> \o word \o <<"]", "]">>

\* the text convertLink hands to editor.replaceRange
replacementText(word, target) ==
    LET filePart == target.file.basename
        linkPath == IF Len(target.subpath) > 0 THEN filePart \o target.subpath ELSE filePart
    IN  IF word = target.actualName
        THEN IF Len(target.subpath) > 0
             THEN <<"[", "[">> \o linkPath \o <<"|">> \o word \o <<"]", "]">>
             ELSE <<"[", "[">> \o linkPath \o <<"]", "]">>
        ELSE <<"[", "[">> \o linkPath \o <<"|">> \o word \o <<"]", "]">>

\* the menu item's onClick: convertLink(editor, wordInfo, target); the
\* replaced range is a change of the document, which update() is told of
convertLink ==
    /\ op = "editorMenu"
    /\ out.item.present
    /\ LET wordInfo == out.wordInfo
           text == replacementText(wordInfo.word, out.item.target)
       IN  /\ Len(editorDoc) - Len(wordInfo.word) + Len(text) <= MaxDocLen
           /\ out' = [kind |-> "converted", file |-> activeFile, word |-> wordInfo.word,
                      target |-> out.item.target, replacementText |-> text]
           /\ editorDoc' = substring(editorDoc, 0, wordInfo.from) \o text
                     \o substring(editorDoc, wordInfo.to, Len(editorDoc))
    /\ op' = "convertLink"
    /\ UNCHANGED <<vault, metadataCache, settings, linkIndex, view, pending, activeFile>>

---------------------------------------------------------------------------
(* The host: the vault and the metadata cache change under the plugin.     *)

NoOut == [kind |-> "none"]

\* a markdown file is created; the host has not parsed it yet
CreateFile(f) ==
    /\ Len(vault) < MaxFiles
    /\ \A i \in 1..Len(vault) : vault[i] # f
    /\ vault' = Append(vault, f)
    /\ op' = "createFile"
    /\ out' = NoOut
    /\ UNCHANGED <<metadataCache, settings, linkIndex, view, pending, activeFile, editorDoc>>

\* a markdown file is deleted, and its metadata with it
DeleteFile(i) ==
    /\ i \in 1..Len(vault)
    /\ vault' = SubSeq(vault, 1, i - 1) \o SubSeq(vault, i + 1, Len(vault))
    /\ metadataCache' = [metadataCache EXCEPT ![vault[i].path] = NullCache]
    /\ op' = "deleteFile"
    /\ out' = NoOut
    /\ UNCHANGED <<settings, linkIndex, view, pending, activeFile, editorDoc>>

\* the host parses a file of the vault: its metadata becomes available, or changes
ParseFile(i, c) ==
    /\ i \in 1..Len(vault)
    /\ c \in Contents(vault[i].path)
    /\ metadataCache[vault[i].path] # c
    /\ metadataCache' = [metadataCache EXCEPT ![vault[i].path] = c]
    /\ op' = "parseFile"
    /\ out' = NoOut
    /\ UNCHANGED <<vault, settings, linkIndex, view, pending, activeFile, editorDoc>>

---------------------------------------------------------------------------
(* onload: the rebuild triggers. *)

\* app.workspace.onLayoutReady(() => this.rebuildIndex())
onLayoutReady ==
    /\ "layoutReady" \in pending
    /\ rebuildIndex(pending \ {"layoutReady"})
    /\ op' = "rebuildIndex"
    /\ out' = NoOut
    /\ UNCHANGED <<vault, metadataCache, settings, view, activeFile, editorDoc>>

\* metadataCache.on('resolved', () => debouncedRebuild()): the timer is (re)armed
onResolved ==
    /\ "debouncedRebuild" \notin pending
    /\ pending' = pending \cup {"debouncedRebuild"}
    /\ op' = "resolved"
    /\ out' = NoOut
    /\ UNCHANGED <<vault, metadataCache, settings, linkIndex, view, activeFile, editorDoc>>

\* the debounce timer of 2000 ms runs out: debounce(() => this.rebuildIndex(), 2000, true)
debouncedRebuild ==
    /\ "debouncedRebuild" \in pending
    /\ rebuildIndex(pending \ {"debouncedRebuild"})
    /\ op' = "rebuildIndex"
    /\ out' = NoOut
    /\ UNCHANGED <<vault, metadataCache, settings, view, activeFile, editorDoc>>

---------------------------------------------------------------------------
(* LazyLinksSettingTab: the onChange handlers.  Each assigns the setting,  *)
(* then awaits saveSettings(); what follows the await runs later.          *)

\* the header levels whose toggles are exercised
ToggledLevels == {1, 4}

\* what is typed into the "Min Match Length" field
MinMatchLengthTexts == {<<"0">>, <<"1">>, <<"2">>, <<"3">>, <<"2", "x">>, <<"x">>, <<>>}

Digits == {"0", "1", "2", "3"}
DigitValue(c) == CASE c = "0" -> 0 [] c = "1" -> 1 [] c = "2" -> 2 [] c = "3" -> 3

NaN == [isNaN |-> TRUE, value |-> 0]
Number(n) == [isNaN |-> FALSE, value |-> n]

\* parseInt(v) of a text without sign or leading blanks: the value of the
\* leading digits, NaN when there is none
RECURSIVE parseDigits(_, _, _)
parseDigits(v, i, acc) ==
    IF i > Len(v) \/ v[i] \notin Digits THEN acc
    ELSE parseDigits(v, i + 1, 10 * acc + DigitValue(v[i]))

parseInt(v) ==
    IF Len(v) = 0 \/ v[1] \notin Digits THEN NaN ELSE Number(parseDigits(v, 1, 0))

\* 'Enable Headers': toggle.onChange, up to the await
onChangeIncludeHeaders ==
    /\ settings' = [settings EXCEPT !.includeHeaders = ~settings.includeHeaders]
    /\ pending' = pending \cup {"includeHeadersSaved"}
    /\ op' = "onChangeIncludeHeaders"
    /\ out' = NoOut
    /\ UNCHANGED <<vault, metadataCache, linkIndex, view, activeFile, editorDoc>>

\* ... and after it: this.plugin.rebuildIndex()
includeHeadersSaved ==
    /\ "includeHeadersSaved" \in pending
    /\ rebuildIndex(pending \ {"includeHeadersSaved"})
    /\ op' = "rebuildIndex"
    /\ out' = NoOut
    /\ UNCHANGED <<vault, metadataCache, settings, view, activeFile, editorDoc>>

\* 'Index H<level>': toggle.onChange, up to the await
onChangeHeaderLevel(level) ==
    /\ settings' = [settings EXCEPT !.headerLevels[level] = ~settings.headerLevels[level]]
    /\ pending' = pending \cup {"headerLevelSaved"}
    /\ op' = "onChangeHeaderLevel"
    /\ out' = NoOut
    /\ UNCHANGED <<vault, metadataCache, linkIndex, view, activeFile, editorDoc>>

\* ... and after it: if (this.plugin.settings.includeHeaders) this.plugin.rebuildIndex()
headerLevelSaved ==
    /\ "headerLevelSaved" \in pending
    /\ IF settings.includeHeaders
       THEN /\ rebuildIndex(pending \ {"headerLevelSaved"})
            /\ op' = "rebuildIndex"
       ELSE /\ pending' = pending \ {"headerLevelSaved"}
            /\ op' = "headerLevelSaved"
            /\ UNCHANGED linkIndex
    /\ out' = NoOut
    /\ UNCHANGED <<vault, metadataCache, settings, view, activeFile, editorDoc>>

\* 'Min Match Length': text.onChange; nothing follows the await
onChangeMinMatchLength(v) ==
    /\ LET num == parseInt(v)
       IN  settings' = IF ~num.isNaN THEN [settings EXCEPT !.minMatchLength = num.value]
                       ELSE settings
    /\ op' = "onChangeMinMatchLength"
    /\ out' = NoOut
    /\ UNCHANGED <<vault, metadataCache, linkIndex, view, pending, activeFile, editorDoc>>

\* 'Match Start', 'Match End', 'Match Middle': toggle.onChange; nothing
\* follows the await
onChangeMatchStart ==
    /\ settings' = [settings EXCEPT !.matchStart = ~settings.matchStart]
    /\ op' = "onChangeMatchStart"
    /\ out' = NoOut
    /\ UNCHANGED <<vault, metadataCache, linkIndex, view, pending, activeFile, editorDoc>>

onChangeMatchEnd ==
    /\ settings' = [settings EXCEPT !.matchEnd = ~settings.matchEnd]
    /\ op' = "onChangeMatchEnd"
    /\ out' = NoOut
    /\ UNCHANGED <<vault, metadataCache, linkIndex, view, pending, activeFile, editorDoc>>

onChangeMatchMiddle ==
    /\ settings' = [settings EXCEPT !.matchMiddle = ~settings.matchMiddle]
    /\ op' = "onChangeMatchMiddle"
    /\ out' = NoOut
    /\ UNCHANGED <<vault, metadataCache, linkIndex, view, pending, activeFile, editorDoc>>

\* 'Enable Reading Mode & Canvas Support': toggle.onChange
onChangeEnableReadingMode ==
    /\ settings' = [settings EXCEPT !.enableReadingMode = ~settings.enableReadingMode]
    /\ op' = "onChangeEnableReadingMode"
    /\ out' = NoOut
    /\ UNCHANGED <<vault, metadataCache, linkIndex, view, pending, activeFile, editorDoc>>

---------------------------------------------------------------------------
(* Spec: the plugin with its vault.  Files come and go, their metadata is  *)
(* parsed, headers are switched on and off, the index is rebuilt.          *)

Init ==
    /\ vault = <<>>
    /\ metadataCache = [p \in Paths |-> NullCache]
    /\ \E data \in SavedData : settings = loadSettings(data)
    /\ linkIndex = EmptyMap
    /\ view = FALSE
    /\ pending = {"layoutReady"}
    /\ activeFile = NullFile
    /\ editorDoc = <<>>
    /\ op = "onload"
    /\ out = NoOut

Next ==
    \/ \E f \in AllFiles : CreateFile(f)
    \/ \E i \in 1..MaxFiles : DeleteFile(i)
    \/ \E i \in 1..MaxFiles, p \in Paths : \E c \in Contents(p) : ParseFile(i, c)
    \/ onLayoutReady
    \/ onResolved
    \/ debouncedRebuild
    \/ onChangeIncludeHeaders
    \/ includeHeadersSaved

Spec == Init /\ [][Next]_vars

---------------------------------------------------------------------------
(* SpecScan: a vault that is already there, scanned by the editor, the     *)
(* reading view, the side panel and the context menu while the index is    *)
(* rebuilt.                                                                *)

\* the vault the scans run against, every file parsed
ScannedVault == <<FileB, FileAb>>
ScannedCache ==
    [p \in Paths |->
        CASE p = "B.md" ->
               Cache(Frontmatter(FALSE, ArrayAliases(<<StringValue(<<"A", "b">>), StringValue(<<>>)>>)),
                     Headings(<<Heading(<<"b", "a">>, 1)>>))
          [] p = "x/Ab.md" ->
               Cache(Frontmatter(FALSE, ArrayAliases(<<StringValue(<<"B">>), NumberValue>>)),
                     Headings(<<Heading(<<"A", "B">>, 1), Heading(<<"b">>, 4)>>))
          [] OTHER -> NullCache]

\* the texts that are scanned: a document, a line, a text node
Texts ==
    { <<"[", "[", "A", "b", "]", "]">>,
      <<"A", "b", " ", "a", "b">>,
      <<"b", "A", " ", "a", "B", "a", " ", "b", "a">>,
      <<"[", "[", "B", "|", "b", "a", "]", "]", " ", "B">>,
      <<"[", "b", "a", "]", " ", "A", "b", "#", "B">> }

\* the file a markdown view can be opened on: none, or a file of the vault
ViewFiles == {NullFile} \cup {vault[i] : i \in 1..Len(vault)}

\* view.visibleRanges: the whole document, or two ranges that meet at offset 3
VisibleRanges(text) ==
    {<<[from |-> 0, to |-> Len(text)]>>}
    \cup {<<[from |-> 0, to |-> k], [from |-> k, to |-> Len(text)]>> : k \in {3} \cap 1..Len(text)}

Paragraph(text) == [text |-> text, ancestors |-> <<[tagName |-> "P", classList |-> {}]>>]
RenderedLink(text) ==
    [text |-> text,
     ancestors |-> <<[tagName |-> "A", classList |-> {"internal-link"}],
                     [tagName |-> "P", classList |-> {}]>>]

\* the elements the post processor is given for a text: one paragraph, or a
\* paragraph with a rendered link between two runs of the text
Elements(text) ==
    { <<Paragraph(text)>>,
      <<Paragraph(text), RenderedLink(<<"A", "b">>), Paragraph(text)>> }

InitScan ==
    /\ vault = ScannedVault
    /\ metadataCache = ScannedCache
    /\ settings = loadSettings([minMatchLength |-> 2])
    /\ linkIndex = EmptyMap
    /\ view = FALSE
    /\ pending = {"layoutReady"}
    /\ activeFile = NullFile
    /\ editorDoc = <<>>
    /\ op = "onload"
    /\ out = NoOut

NextScan ==
    \/ onLayoutReady
    \/ onResolved
    \/ debouncedRebuild
    \/ onChangeIncludeHeaders
    \/ includeHeadersSaved
    \/ onChangeEnableReadingMode
    \/ \E file \in ViewFiles, text \in Texts : constructor(file, text)
    \/ \E ranges \in VisibleRanges(editorDoc) : update(editorDoc, ranges)
    \/ \E element \in Elements(editorDoc) : postProcess(element)
    \/ activateView
    \/ refresh
    \/ \E ch \in 0..Len(editorDoc) : editorMenu(ch)

SpecScan == InitScan /\ [][NextScan]_vars

---------------------------------------------------------------------------
(* The conversion scenario: over the same vault, documents are opened, the  *)
(* context menu is asked for the word under the cursor and the offered link *)
(* is written; headings are switched on and off in between.                 *)

InitConvert == InitScan

NextConvert ==
    \/ onLayoutReady
    \/ onChangeIncludeHeaders
    \/ includeHeadersSaved
    \/ \E file \in ViewFiles, text \in Texts : constructor(file, text)
    \/ \E ch \in 0..Len(editorDoc) : editorMenu(ch)
    \/ convertLink

SpecConvert == InitConvert /\ [][NextConvert]_vars

---------------------------------------------------------------------------
(* SpecMatch: the match resolver.  Words are typed into a view and looked  *)
(* up, by the decorations and through the context menu, under every        *)
(* matching configuration.                                                 *)

\* the characters that are typed
TypedChars == {"a", "b", "A"}

\* the vault the words are matched against, every file parsed
MatchedVault == <<FileB, Fileab, FileAb>>
MatchedCache ==
    [p \in Paths |->
        IF p = "y/ab.md"
        THEN Cache(Frontmatter(FALSE, ScalarAlias(StringValue(<<"b", "A">>))), NoHeadings)
        ELSE ScannedCache[p]]

InitMatch ==
    /\ vault = MatchedVault
    /\ metadataCache = MatchedCache
    /\ settings = loadSettings(NoData)
    /\ linkIndex = EmptyMap
    /\ view = FALSE
    /\ pending = {"layoutReady"}
    /\ activeFile = NullFile
    /\ editorDoc = <<>>
    /\ op = "onload"
    /\ out = NoOut

NextMatch ==
    \/ onLayoutReady
    \/ onChangeMatchStart
    \/ onChangeMatchEnd
    \/ onChangeMatchMiddle
    \/ \E v \in MinMatchLengthTexts : onChangeMinMatchLength(v)
    \/ \E file \in ViewFiles : constructor(file, <<>>)
    \/ \E c \in TypedChars : Len(editorDoc) < MaxWordLen /\ update(Append(editorDoc, c), <<[from |-> 0, to |-> Len(editorDoc) + 1]>>)
    \/ editorMenu(0)

SpecMatch == InitMatch /\ [][NextMatch]_vars

---------------------------------------------------------------------------
(* The settings scenario: over the same vault, which does not change, the   *)
(* settings tab switches headings and heading levels on and off and edits   *)
(* the minimal match length.                                                *)

InitSettings ==
    /\ vault = ScannedVault
    /\ metadataCache = ScannedCache
    /\ settings = loadSettings(NoData)
    /\ linkIndex = EmptyMap
    /\ view = FALSE
    /\ pending = {"layoutReady"}
    /\ activeFile = NullFile
    /\ editorDoc = <<>>
    /\ op = "onload"
    /\ out = NoOut

NextSettings ==
    \/ onLayoutReady
    \/ onChangeIncludeHeaders
    \/ includeHeadersSaved
    \/ \E level \in ToggledLevels : onChangeHeaderLevel(level)
    \/ headerLevelSaved
    \/ \E v \in MinMatchLengthTexts : onChangeMinMatchLength(v)

SpecSettings == InitSettings /\ [][NextSettings]_vars

---------------------------------------------------------------------------
(* What the documents say, read off the vault and the metadata cache       *)
(* without the index builder: used to state the properties below.          *)

\* the document is flagged ignore_linking: true
Ignored(file) ==
    LET cache == getFileCache(file)
    IN  cache.present /\ cache.frontmatter.present /\ cache.frontmatter.ignore_linking

\* no metadata is available for the document
NoMetadata(file) == ~getFileCache(file).present

\* the document's aliases that are strings: the entries of a list, or a
\* single non-empty scalar
StringAliases(file) ==
    LET cache == getFileCache(file)
        aliases == cache.frontmatter.aliases
    IN  IF ~cache.present \/ ~cache.frontmatter.present THEN {}
        ELSE IF aliases.kind = "array"
             THEN {aliases.items[i].text : i \in {j \in 1..Len(aliases.items) : aliases.items[j].isString}}
             ELSE IF aliases.kind = "scalar" /\ aliases.items[1].isString
                     /\ aliases.items[1].text # <<>>
                  THEN {aliases.items[1].text}
                  ELSE {}

\* the document's headings that the configuration admits to the index when
\* includeHeaders has the given value
HeadingsAdmitted(file, includeHeaders) ==
    LET cache == getFileCache(file)
        hs == cache.headings.list
    IN  IF cache.present /\ cache.headings.present /\ includeHeaders
        THEN {hs[i].heading : i \in {j \in 1..Len(hs) :
                                        /\ settings.headerLevels[hs[j].level]
                                        /\ Len(hs[j].heading) >= settings.minMatchLength}}
        ELSE {}

EligibleHeadings(file) == HeadingsAdmitted(file, settings.includeHeaders)

\* the keys a document that is not ignored puts into the index
KeysUnder(file, includeHeaders) ==
    {toLowerCase(file.basename)}
    \cup {toLowerCase(a) : a \in StringAliases(file)}
    \cup {toLowerCase(h) : h \in HeadingsAdmitted(file, includeHeaders)}

KeysOf(file) == KeysUnder(file, settings.includeHeaders)

\* the positions in the vault of the documents that put key into the index
InsertersUnder(key, includeHeaders) ==
    {j \in 1..Len(vault) : ~Ignored(vault[j]) /\ key \in KeysUnder(vault[j], includeHeaders)}

Inserters(key) == InsertersUnder(key, settings.includeHeaders)

\* the last of them in iteration order
LastInserterUnder(key, includeHeaders) ==
    CHOOSE j \in InsertersUnder(key, includeHeaders) :
        \A k \in InsertersUnder(key, includeHeaders) : k <= j

LastInserter(key) == LastInserterUnder(key, settings.includeHeaders)

\* the targets a document can stand behind a key with: its basename, a string
\* alias, or an admitted heading with the heading as subpath
TargetsUnder(file, key, includeHeaders) ==
    {[file |-> file, isAlias |-> FALSE, actualName |-> b, subpath |-> <<>>]
        : b \in {x \in {file.basename} : toLowerCase(x) = key}}
    \cup {[file |-> file, isAlias |-> TRUE, actualName |-> a, subpath |-> <<>>]
        : a \in {x \in StringAliases(file) : toLowerCase(x) = key}}
    \cup {[file |-> file, isAlias |-> FALSE, actualName |-> h, subpath |-> <<"#">> \o h]
        : h \in {x \in HeadingsAdmitted(file, includeHeaders) : toLowerCase(x) = key}}

\* the index is the whole outcome of one rebuild over the vault: the keys of
\* all documents that are not ignored, each with a target of the last
\* document that produces it
CompleteIndex(index, includeHeaders) ==
    /\ DOMAIN index =
          UNION {KeysUnder(vault[i], includeHeaders) :
                    i \in {j \in 1..Len(vault) : ~Ignored(vault[j])}}
    /\ \A key \in DOMAIN index :
          index[key] \in TargetsUnder(vault[LastInserterUnder(key, includeHeaders)],
                                      key, includeHeaders)

\* the targets of the index that belong to a document
KeysInto(file) == {k \in DOMAIN linkIndex : linkIndex[k].file = file}

---------------------------------------------------------------------------
(* C1. Basename coverage.                                                  *)

\* C1 as claimed: after any rebuildIndex, for every document D that is not
\* flagged ignore_linking, the index holds D.basename lowercased and that key
\* maps to a target whose file is D, also when several documents, aliases or
\* headings produce the same key.
C1_BasenameMapsToItsDocument ==
    op = "rebuildIndex" =>
        \A i \in 1..Len(vault) :
            ~Ignored(vault[i]) =>
                /\ toLowerCase(vault[i].basename) \in DOMAIN linkIndex
                /\ linkIndex[toLowerCase(vault[i].basename)].file = vault[i]

\* C1 as amended: after any rebuildIndex, for every document D that is not
\* flagged ignore_linking, the index holds D.basename lowercased; the key maps
\* to a target whose file is the last document, in iteration order, among the
\* documents not ignored that produce this key (as basename, string alias or
\* admitted heading): D itself unless a later document produces the key too.
C1_BasenameCoveredLastDocumentWins ==
    op = "rebuildIndex" =>
        \A i \in 1..Len(vault) :
            ~Ignored(vault[i]) =>
                LET key == toLowerCase(vault[i].basename)
                IN  /\ key \in DOMAIN linkIndex
                    /\ linkIndex[key].file = vault[LastInserter(key)]
                    /\ LastInserter(key) >= i

\* C1 witness: a rebuild has run over two documents that are not ignored and
\* share a lowercased basename; the key maps to the later one.
C1_Witness ==
    /\ op = "rebuildIndex"
    /\ Len(vault) = 2
    /\ ~Ignored(vault[1]) /\ ~Ignored(vault[2])
    /\ toLowerCase(vault[1].basename) = toLowerCase(vault[2].basename)
    /\ toLowerCase(vault[1].basename) \in DOMAIN linkIndex
    /\ linkIndex[toLowerCase(vault[1].basename)].file = vault[2]

---------------------------------------------------------------------------
(* C7. Ignore flag.                                                        *)

\* C7: after any rebuildIndex, a document whose frontmatter has
\* ignore_linking: true contributes no entry: no target of the index, under
\* whatever key (basename, alias or heading), has that document as its file.
C7_IgnoredDocumentHasNoEntries ==
    op = "rebuildIndex" =>
        \A i \in 1..Len(vault) :
            Ignored(vault[i]) => KeysInto(vault[i]) = {}

\* C7 witness: a rebuild with headings included has run over an ignored
\* document that has a string alias and an admitted heading, next to a
\* document that is indexed.
C7_Witness ==
    /\ op = "rebuildIndex"
    /\ settings.includeHeaders
    /\ \E i, j \in 1..Len(vault) :
          /\ Ignored(vault[i])
          /\ StringAliases(vault[i]) # {}
          /\ EligibleHeadings(vault[i]) # {}
          /\ KeysInto(vault[i]) = {}
          /\ KeysInto(vault[j]) # {}

---------------------------------------------------------------------------
(* C9. Missing metadata.                                                   *)

\* C9 as claimed: a document for which no metadata is available at rebuild
\* time contributes no entries at all to that rebuild.
C9_NoMetadataNoEntries ==
    op = "rebuildIndex" =>
        \A i \in 1..Len(vault) :
            NoMetadata(vault[i]) => KeysInto(vault[i]) = {}

\* C9 as amended: a document without metadata at rebuild time contributes its
\* basename entry and nothing else: its lowercased basename is a key of the
\* index, mapped to it unless a later document produces the key, and every
\* target of the index that belongs to it is that basename entry.  A rebuild
\* that finds the metadata of a document that is not ignored has the keys of
\* its string aliases and admitted headings as well.
C9_NoMetadataBasenameOnly ==
    op = "rebuildIndex" =>
        \A i \in 1..Len(vault) :
            LET file == vault[i]
                key == toLowerCase(file.basename)
            IN  /\ NoMetadata(file) =>
                    /\ key \in DOMAIN linkIndex
                    /\ LastInserter(key) = i => linkIndex[key].file = file
                    /\ \A k \in KeysInto(file) :
                          /\ k = key
                          /\ linkIndex[k].isAlias = FALSE
                          /\ linkIndex[k].actualName = file.basename
                          /\ linkIndex[k].subpath = <<>>
                /\ (~NoMetadata(file) /\ ~Ignored(file)) =>
                    KeysOf(file) \subseteq DOMAIN linkIndex

\* C9 witness: a rebuild has run while a document had no metadata, and the
\* index maps the document's basename to it.
C9_Witness ==
    /\ op = "rebuildIndex"
    /\ \E i \in 1..Len(vault) :
          /\ NoMetadata(vault[i])
          /\ KeysInto(vault[i]) = {toLowerCase(vault[i].basename)}

---------------------------------------------------------------------------
(* C8. Atomic index swap.                                                  *)

\* C8: the index a reader finds is never a partly built one.  Every state
\* left by rebuildIndex has the whole index of the vault under the settings
\* in force, and in every state the index is the initial empty map or the
\* whole outcome of one rebuild (with or without headings).
C8_IndexIsOneCompleteRebuild ==
    /\ op = "rebuildIndex" => CompleteIndex(linkIndex, settings.includeHeaders)
    /\ \/ linkIndex = EmptyMap
       \/ \E includeHeaders \in BOOLEAN : CompleteIndex(linkIndex, includeHeaders)

\* C8 witness: a scan has looked words up while a rebuild was due: headings
\* were switched off, the index read is still the whole one with headings.
C8_Witness ==
    /\ out.kind \in {"decorations", "panel", "menu", "html"}
    /\ out.built.queried # <<>>
    /\ "includeHeadersSaved" \in pending
    /\ ~settings.includeHeaders
    /\ CompleteIndex(linkIndex, TRUE)
    /\ ~CompleteIndex(linkIndex, FALSE)

---------------------------------------------------------------------------
(* The lookups of a scan, as the properties below see them.                *)

\* the calls of findBestMatch the last scan made, each with its result
Lookups ==
    IF out.kind \in {"decorations", "panel", "menu", "html"}
    THEN {out.built.queried[k] : k \in 1..Len(out.built.queried)}
    ELSE {}

\* the selfNames the last scan passed to findBestMatch
SelfNamesOfScan == selfNamesOf(out.file)

\* the exact phase returns for the word
ExactReturns(word) ==
    /\ toLowerCase(word) \in DOMAIN linkIndex
    /\ toLowerCase(word) \notin SelfNamesOfScan

\* the partial phase is entered for the word
PartialEnabled(word) ==
    /\ settings.matchStart \/ settings.matchEnd \/ settings.matchMiddle
    /\ Len(word) >= settings.minMatchLength

\* the candidates of the partial phase: a length and a start offset
Candidates(word) ==
    {c \in (0..Len(word)) \X (0..Len(word)) :
        /\ c[1] >= settings.minMatchLength
        /\ c[1] <= Len(word) - 1
        /\ c[2] <= Len(word) - c[1]}

\* the substring a candidate stands for
Sub(word, c) == SubSeq(toLowerCase(word), c[2] + 1, c[2] + c[1])

\* the flag for the candidate's position
PositionEnabled(word, c) ==
    IF c[2] = 0 THEN settings.matchStart
    ELSE IF c[2] + c[1] = Len(word) THEN settings.matchEnd
    ELSE settings.matchMiddle

Acceptable(word, c) ==
    /\ Sub(word, c) \notin SelfNamesOfScan
    /\ Sub(word, c) \in DOMAIN linkIndex
    /\ PositionEnabled(word, c)

\* c is tried before d: longer first, then further left
TriedBefore(c, d) == c[1] > d[1] \/ (c[1] = d[1] /\ c[2] < d[2])

---------------------------------------------------------------------------
(* C2. Self-exclusion.                                                     *)

\* C2 as claimed: the matchedString findBestMatch returns for a word looked
\* up in the context of document D is never a member of selfNames(D), be the
\* result exact, partial or the no-match result with its empty matchedString.
C2_MatchedStringNeverSelfName ==
    \A q \in Lookups : q.result.matchedString \notin SelfNamesOfScan

\* C2 as amended: whenever findBestMatch returns a target, exact or partial,
\* its matchedString is not a member of selfNames(D); the no-match result has
\* the empty matchedString, whether or not the empty string is a self-name
\* of D.
C2_MatchNeverSelfName ==
    \A q \in Lookups :
        IF q.result.target # NullTarget
        THEN q.result.matchedString \notin SelfNamesOfScan
        ELSE q.result.matchedString = <<>>

\* C2 witness: a partial match was returned for a word of which a candidate
\* tried earlier is an indexed self-name of the document.
C2_Witness ==
    \E q \in Lookups :
        /\ q.result.target # NullTarget
        /\ q.result.isPartial
        /\ \E c \in Candidates(q.word) :
              /\ Sub(q.word, c) \in SelfNamesOfScan \cap DOMAIN linkIndex
              /\ PositionEnabled(q.word, c)
              /\ Len(Sub(q.word, c)) > Len(q.result.matchedString)

---------------------------------------------------------------------------
(* C3. Exact precedence.                                                   *)

\* C3: whenever the lowercased word is a key of the index and not a
\* self-name, findBestMatch returns the key's target with isPartial false and
\* the lowercased word as matchedString, whatever matchStart, matchEnd,
\* matchMiddle and minMatchLength are and whatever partial candidates exist.
C3_ExactPrecedence ==
    \A q \in Lookups :
        ExactReturns(q.word) =>
            q.result = [target |-> linkIndex[toLowerCase(q.word)],
                        isPartial |-> FALSE,
                        matchedString |-> toLowerCase(q.word)]

\* C3 witness: an exact match was returned with the three flags off, for a
\* word shorter than minMatchLength that has an indexed proper substring.
C3_Witness ==
    \E q \in Lookups :
        /\ ExactReturns(q.word)
        /\ ~settings.matchStart /\ ~settings.matchEnd /\ ~settings.matchMiddle
        /\ Len(q.word) < settings.minMatchLength
        /\ \E a \in 1..Len(q.word) : \E b \in a..Len(q.word) :
              /\ b - a + 1 < Len(q.word)
              /\ SubSeq(toLowerCase(q.word), a, b) \in DOMAIN linkIndex
        /\ ~q.result.isPartial
        /\ q.result.target # NullTarget

---------------------------------------------------------------------------
(* C4. Partial-match tie-break.                                            *)

\* C4: whenever the exact phase does not return and the partial phase is
\* enabled, findBestMatch returns the acceptable candidate that is tried
\* first, longer substrings before shorter ones and, at one length, left
\* before right; a candidate is acceptable iff it is no self-name, is a key of
\* the index and the flag of its position is on.  A candidate rejected for its
\* position does not end the search; the result is no-match only if no
\* candidate is acceptable.
C4_PartialTieBreak ==
    \A q \in Lookups :
        (~ExactReturns(q.word) /\ PartialEnabled(q.word)) =>
            LET acceptable == {c \in Candidates(q.word) : Acceptable(q.word, c)}
            IN  IF acceptable = {}
                THEN q.result = [target |-> NullTarget, isPartial |-> FALSE,
                                 matchedString |-> <<>>]
                ELSE \E c \in acceptable :
                        /\ \A d \in acceptable \ {c} : TriedBefore(c, d)
                        /\ q.result = [target |-> linkIndex[Sub(q.word, c)],
                                       isPartial |-> TRUE,
                                       matchedString |-> Sub(q.word, c)]

\* C4 witness: a partial match was returned although a candidate tried
\* before it is indexed, is no self-name and was rejected for its position,
\* and a shorter candidate is acceptable as well.
C4_Witness ==
    \E q \in Lookups :
        /\ ~ExactReturns(q.word) /\ PartialEnabled(q.word)
        /\ q.result.isPartial
        /\ \E c, d, e \in Candidates(q.word) :
              /\ Sub(q.word, c) = q.result.matchedString
              /\ Acceptable(q.word, c)
              /\ TriedBefore(d, c)
              /\ Sub(q.word, d) \in DOMAIN linkIndex \ SelfNamesOfScan
              /\ ~PositionEnabled(q.word, d)
              /\ TriedBefore(c, e)
              /\ Acceptable(q.word, e)

---------------------------------------------------------------------------
(* C5. Materialization.                                                    *)

\* the text [[path]]
Wikilink(path) == <<"[", "[">> \o path \o <<"]", "]">>

\* the text [[path|shown]]
PipedWikilink(path, shown) == <<"[", "[">> \o path \o <<"|">> \o shown \o <<"]", "]">>

\* C5 as claimed: convertLink writes [[actualName]] when the word equals the
\* target's actualName and the target has no subpath, and
\* [[actualName+subpath|word]] otherwise: the link path is the target's
\* actualName followed by its subpath if any.
C5_LinkPathIsActualName ==
    op = "convertLink" =>
        out.replacementText =
            IF out.word = out.target.actualName /\ out.target.subpath = <<>>
            THEN Wikilink(out.target.actualName)
            ELSE PipedWikilink(out.target.actualName \o out.target.subpath, out.word)

\* C5 as amended: convertLink writes [[P]] when the word equals the target's
\* actualName and the target has no subpath, and [[P|word]] otherwise, where
\* the link path P is the basename of the target's document followed by the
\* target's subpath if any; the word is replaced by that text in the document.
C5_LinkPathIsBasename ==
    op = "convertLink" =>
        out.replacementText =
            IF out.word = out.target.actualName /\ out.target.subpath = <<>>
            THEN Wikilink(out.target.file.basename)
            ELSE PipedWikilink(out.target.file.basename \o out.target.subpath, out.word)

\* C5 witness: a word equal to a heading was converted into a link to the
\* heading's document, whose basename is not the heading.
C5_Witness ==
    /\ op = "convertLink"
    /\ out.target.subpath # <<>>
    /\ out.word = out.target.actualName
    /\ out.target.actualName # out.target.file.basename
    /\ out.replacementText =
          PipedWikilink(out.target.file.basename \o out.target.subpath, out.word)

---------------------------------------------------------------------------
(* C6. Bracket guard.                                                      *)

\* the two characters before the token are [[ or the two after it are ]]
Bracketed(text, from, to) ==
    \/ from >= 2 /\ text[from - 1] = "[" /\ text[from] = "["
    \/ to + 2 <= Len(text) /\ text[to + 1] = "]" /\ text[to + 2] = "]"

\* C6: in the editor decoration pass, the side-panel scan and the context-menu
\* query, a word whose two preceding characters are [[ or whose two following
\* characters are ]] is never passed to findBestMatch, and so yields no match
\* and no conversion offer.
C6_BracketedWordNeverLookedUp ==
    out.kind \in {"decorations", "panel", "menu"} =>
        \A q \in Lookups : ~Bracketed(out.text, q.from, q.to)

---------------------------------------------------------------------------
(* C10. Highlight style per rendering pass.                                *)

\* the matched tokens of the last pass, in the order of the pass
RECURSIVE MatchedFrom(_, _)
MatchedFrom(queried, k) ==
    IF k > Len(queried) THEN <<>>
    ELSE IF queried[k].result.target # NullTarget
         THEN <<queried[k].result>> \o MatchedFrom(queried, k + 1)
         ELSE MatchedFrom(queried, k + 1)

\* the classes of the spans of a fragment, in order
RECURSIVE SpanClasses(_, _)
SpanClasses(fragment, k) ==
    IF k > Len(fragment) THEN <<>>
    ELSE IF fragment[k].span
         THEN <<fragment[k].className>> \o SpanClasses(fragment, k + 1)
         ELSE SpanClasses(fragment, k + 1)

\* the classes of the spans of all replaced nodes, in order
RECURSIVE ReplacedClasses(_, _)
ReplacedClasses(replaced, r) ==
    IF r > Len(replaced) THEN <<>>
    ELSE SpanClasses(replaced[r].fragment, 1) \o ReplacedClasses(replaced, r + 1)

\* the classes the last pass gave its matched tokens, in the order of the pass
ClassesOfPass ==
    IF out.kind = "decorations"
    THEN [k \in 1..Len(out.built.ranges) |-> out.built.ranges[k].class]
    ELSE ReplacedClasses(out.built.replaced, 1)

\* C10: in the editor decoration pass and in the reading-mode pass alike, a
\* matched token has the class cm-virtual-link only if its match is exact and
\* no earlier token of the pass matched the same string exactly; every later
\* exact occurrence and every partial match has cm-virtual-link-muted.
C10_PrimaryOnlyForFirstExact ==
    out.kind \in {"decorations", "html"} =>
        LET matched == MatchedFrom(out.built.queried, 1)
            classes == ClassesOfPass
        IN  /\ Len(classes) = Len(matched)
            /\ \A k \in 1..Len(matched) :
                  classes[k] =
                      IF /\ ~matched[k].isPartial
                         /\ \A j \in 1..(k - 1) :
                               \/ matched[j].isPartial
                               \/ matched[j].matchedString # matched[k].matchedString
                      THEN "cm-virtual-link"
                      ELSE "cm-virtual-link-muted"

---------------------------------------------------------------------------
(* C11. Build order, last write wins.                                      *)

\* the positions, in the document's alias list, of the string aliases that
\* lowercase to key
AliasPositions(file, key) ==
    LET cache == getFileCache(file)
        aliases == cache.frontmatter.aliases
    IN  IF cache.present /\ cache.frontmatter.present /\ aliases.kind = "array"
        THEN {j \in 1..Len(aliases.items) :
                 aliases.items[j].isString /\ toLowerCase(aliases.items[j].text) = key}
        ELSE IF cache.present /\ cache.frontmatter.present /\ aliases.kind = "scalar"
                /\ aliases.items[1].isString /\ aliases.items[1].text # <<>>
                /\ toLowerCase(aliases.items[1].text) = key
             THEN {1}
             ELSE {}

\* the positions, in the document's heading list, of the admitted headings
\* that lowercase to key
HeadingPositions(file, key) ==
    LET cache == getFileCache(file)
        hs == cache.headings.list
    IN  IF cache.present /\ cache.headings.present /\ settings.includeHeaders
        THEN {j \in 1..Len(hs) :
                 /\ settings.headerLevels[hs[j].level]
                 /\ Len(hs[j].heading) >= settings.minMatchLength
                 /\ toLowerCase(hs[j].heading) = key}
        ELSE {}

\* the greatest member of a non-empty set of positions
Last(positions) == CHOOSE j \in positions : \A k \in positions : k <= j

\* the target of the document's last insertion of key: the basename after
\* the aliases after the headings, the later of two aliases or of two headings
LastInsertionOf(file, key) ==
    IF toLowerCase(file.basename) = key
    THEN [file |-> file, isAlias |-> FALSE, actualName |-> file.basename, subpath |-> <<>>]
    ELSE IF AliasPositions(file, key) # {}
         THEN [file |-> file, isAlias |-> TRUE,
               actualName |-> getFileCache(file).frontmatter.aliases.items[
                                  Last(AliasPositions(file, key))].text,
               subpath |-> <<>>]
         ELSE LET h == getFileCache(file).headings.list[Last(HeadingPositions(file, key))].heading
              IN  [file |-> file, isAlias |-> FALSE, actualName |-> h,
                   subpath |-> <<"#">> \o h]

\* C11: after a rebuild each key of the index maps to the target of the last
\* insertion of that key in build order: documents in iteration order and,
\* within a document, admitted headings, then string aliases, then the
\* basename.  So a basename that lowercases to the key of one of the
\* document's own aliases or admitted headings has the basename target,
\* unless a later document that is not ignored inserts the key.
C11_LastInsertionWins ==
    op = "rebuildIndex" =>
        /\ DOMAIN linkIndex =
              UNION {KeysOf(vault[i]) : i \in {j \in 1..Len(vault) : ~Ignored(vault[j])}}
        /\ \A key \in DOMAIN linkIndex :
              linkIndex[key] = LastInsertionOf(vault[LastInserter(key)], key)

\* C11 witness: a rebuild has run over a document whose basename lowercases
\* to the key of one of its own admitted headings and of an alias of an
\* earlier document; the key has the basename target.
C11_Witness ==
    /\ op = "rebuildIndex"
    /\ \E i \in 1..Len(vault) :
          LET key == toLowerCase(vault[i].basename)
          IN  /\ ~Ignored(vault[i])
              /\ HeadingPositions(vault[i], key) # {}
              /\ \E j \in 1..(i - 1) :
                    ~Ignored(vault[j]) /\ AliasPositions(vault[j], key) # {}
              /\ LastInserter(key) = i
              /\ linkIndex[key] = [file |-> vault[i], isAlias |-> FALSE,
                                   actualName |-> vault[i].basename, subpath |-> <<>>]

---------------------------------------------------------------------------
(* C12. Partial phase gating and the no-match value.                       *)

\* C12: when the exact phase does not return and none of matchStart,
\* matchEnd, matchMiddle is on or the word is shorter than minMatchLength,
\* findBestMatch returns target null, isPartial false and the empty
\* matchedString, whatever substrings of the word are indexed; every result
\* without a target is this value, and every lookup returns a result with or
\* without a target.
C12_GatedLookupIsNoMatch ==
    \A q \in Lookups :
        /\ (~ExactReturns(q.word) /\ ~PartialEnabled(q.word)) =>
              q.result = [target |-> NullTarget, isPartial |-> FALSE, matchedString |-> <<>>]
        /\ q.result.target = NullTarget =>
              q.result = [target |-> NullTarget, isPartial |-> FALSE, matchedString |-> <<>>]
        /\ q.result.target # NullTarget =>
              /\ q.result.matchedString \in DOMAIN linkIndex
              /\ q.result.target = linkIndex[q.result.matchedString]

\* C12 witness: with the three flags off, a word that is not indexed but has
\* an indexed proper substring, no self-name and not shorter than
\* minMatchLength, was looked up and the result is the no-match value.
C12_Witness ==
    \E q \in Lookups :
        /\ ~ExactReturns(q.word)
        /\ ~settings.matchStart /\ ~settings.matchEnd /\ ~settings.matchMiddle
        /\ Len(q.word) >= settings.minMatchLength
        /\ \E c \in Candidates(q.word) :
              Sub(q.word, c) \in DOMAIN linkIndex \ SelfNamesOfScan
        /\ q.result = [target |-> NullTarget, isPartial |-> FALSE, matchedString |-> <<>>]

---------------------------------------------------------------------------
(* C13. Index and configuration agree.                                     *)

\* every handler of the settings tab has run to its end and the index has
\* been built
HandlersCompleted == pending = {}

\* C13: with the documents unchanged, once every change handler of the
\* settings tab has completed, the index equals the index a full rebuild
\* makes of the present documents under the present configuration: it has no
\* heading entry whose level is off or whose text is shorter than
\* minMatchLength and lacks none that the configuration admits.
C13_IndexFollowsSettings ==
    HandlersCompleted => linkIndex = newIndexOf(vault)

====
